---- MODULE Spec2Model ----
(***************************************************************************)
(* Conway's Game of Life simulator (conways_game_of_life_app.py).           *)
(*                                                                         *)
(* The model follows GameOfLifeApp: the list active_animations, the         *)
(* FuncAnimation objects with their timers, and the numpy arrays the        *)
(* closures of run_simulation hold.  Arrays live in a heap and are named by *)
(* their position in it, so that copying an array and rebinding a name      *)
(* (grid = new_grid) are different things, as they are in Python.           *)
(*                                                                         *)
(* The grid dimensions are the module constants GRID_ROWS and GRID_COLS of  *)
(* the source (60 x 60).  The code is written against the two names only,   *)
(* so the model keeps the dimensions of a build in the variables rows and   *)
(* cols: the specification Spec fixes them to the constants of the source,  *)
(* the other specifications draw them from small ranges.                    *)
(***************************************************************************)
EXTENDS Integers, Sequences, FiniteSets, TLC

VARIABLES
    rows,               \* GRID_ROWS of the build
    cols,               \* GRID_COLS of the build
    heap,               \* the numpy arrays allocated so far, by object id
    animations,         \* every FuncAnimation created so far, by creation order
    active_animations,  \* self.active_animations: ids into animations
    tabs,               \* titles of the notebook's tabs
    last_error          \* what the except clause of run_simulation printed last

vars == <<rows, cols, heap, animations, active_animations, tabs, last_error>>

-----------------------------------------------------------------------------
(* Program constants *)

GRID_ROWS == 60
GRID_COLS == 60

Glider == <<
    <<25, 26>>, <<26, 27>>, <<27, 25>>, <<27, 26>>, <<27, 27>> >>

LWSS == <<
    <<25, 26>>, <<26, 25>>, <<26, 29>>, <<27, 25>>, <<28, 25>>,
    <<28, 28>>, <<28, 29>>, <<29, 25>>, <<29, 29>> >>

Blinker == << <<30, 29>>, <<30, 30>>, <<30, 31>> >>

Toad == <<
    <<25, 26>>, <<25, 27>>, <<25, 28>>, <<26, 25>>, <<26, 26>>, <<26, 27>> >>

\* PATTERNS, flattened over its two categories: the buttons of setup_ui pass
\* (cells, name) of every item of every category to run_simulation.
PATTERNS ==
    [n \in {"Glider", "Lightweight Spaceship (LWSS)", "Blinker", "Toad"} |->
        CASE n = "Glider" -> Glider
          [] n = "Lightweight Spaceship (LWSS)" -> LWSS
          [] n = "Blinker" -> Blinker
          [] OTHER -> Toad]

-----------------------------------------------------------------------------
(* Bounds of the model *)

MaxRuns == 2        \* Spec: run_simulation calls in one behaviour
MaxFrames == 4      \* Spec: update calls in one behaviour
MaxCells == 9       \* SpecRule: GRID_ROWS * GRID_COLS is at most MaxCells
MaxGens == 2        \* SpecRule: update calls of one animation
MaxSeedDim == 2     \* SpecSeed: GRID_ROWS and GRID_COLS range over -1..MaxSeedDim
MaxSeedLen == 2     \* SpecSeed: length of the list of cells
MaxShapeDim == 6    \* SpecShapes: GRID_ROWS and GRID_COLS range over 1..MaxShapeDim
MaxShapeGens == 2   \* SpecShapes: update calls of one animation

-----------------------------------------------------------------------------
(* numpy arrays *)

\* Body applied to the value of e, with e evaluated once.
With(e, Body(_)) == CHOOSE r \in {Body(v) : v \in {e}} : TRUE

\* Mutant of np_zeros: np.ones in its place.
np_ones(r, c) ==
    IF r < 0 \/ c < 0
    THEN [exc |-> "ValueError", arr |-> [shape |-> <<0, 0>>, data |-> <<>>]]
    ELSE [exc |-> "none",
          arr |-> [shape |-> <<r, c>>,
                   data |-> [i \in 0..(r - 1) |-> [j \in 0..(c - 1) |-> 1]]]]

\* np.zeros((r, c)): a negative dimension raises ValueError; a zero dimension
\* gives an empty array of that shape.
np_zeros(r, c) ==
    IF r < 0 \/ c < 0
    THEN [exc |-> "ValueError", arr |-> [shape |-> <<0, 0>>, data |-> <<>>]]
    ELSE [exc |-> "none",
          arr |-> [shape |-> <<r, c>>,
                   data |-> [i \in 0..(r - 1) |-> [j \in 0..(c - 1) |-> 0]]]]

\* a[i, j] = v.  numpy counts a negative index from the end of the axis and
\* raises IndexError for an index outside [-n, n).
np_setitem(a, i, j, v) ==
    LET r == a.shape[1]
        c == a.shape[2]
        ii == IF i < 0 THEN i + r ELSE i
        jj == IF j < 0 THEN j + c ELSE j
    IN  IF ii < 0 \/ ii >= r \/ jj < 0 \/ jj >= c
        THEN [exc |-> "IndexError", arr |-> a]
        ELSE [exc |-> "none", arr |-> [a EXCEPT !.data[ii][jj] = v]]

\* Python's %: for a positive divisor the result is in 0..(n - 1), also for a
\* negative left operand.
PyMod(a, n) == a - n * (a \div n)

-----------------------------------------------------------------------------
(* run_simulation: seeding *)

\* Mutant of SeedCell: the lower bounds of the range check left out.
SeedCellNoLowerBound(a, p, R, C) ==
    IF p[1] < R /\ p[2] < C
    THEN np_setitem(a, p[1], p[2], 1)
    ELSE [exc |-> "none", arr |-> a]

\* One iteration of   for i, j in cells: if 0 <= i < GRID_ROWS and ...: grid[i, j] = 1
SeedCell(a, p, R, C) ==
    IF 0 <= p[1] /\ p[1] < R /\ 0 <= p[2] /\ p[2] < C
    THEN np_setitem(a, p[1], p[2], 1)
    ELSE [exc |-> "none", arr |-> a]

\* The for loop over cells, from position k; an exception ends it.
RECURSIVE SeedFrom(_, _, _, _, _)
SeedFrom(a, cells, k, R, C) ==
    IF k > Len(cells)
    THEN [exc |-> "none", arr |-> a]
    ELSE With(SeedCell(a, cells[k], R, C),
              LAMBDA s : IF s.exc # "none" THEN s
                         ELSE SeedFrom(s.arr, cells, k + 1, R, C))

\* grid = np.zeros((GRID_ROWS, GRID_COLS)) followed by the seeding loop.
InitGrid(cells, R, C) ==
    With(np_zeros(R, C),
         LAMBDA z : IF z.exc # "none" THEN z ELSE SeedFrom(z.arr, cells, 1, R, C))

-----------------------------------------------------------------------------
(* update: one generation.  R and C stand for GRID_ROWS and GRID_COLS. *)

\* Mutant of Offsets: the filter (di, dj) != (0, 0) left out.
OffsetsWithSelf ==
    << <<-1, -1>>, <<-1, 0>>, <<-1, 1>>,
       << 0, -1>>, << 0, 0>>, << 0, 1>>,
       << 1, -1>>, << 1, 0>>, << 1, 1>> >>

\* for di in [-1, 0, 1] for dj in [-1, 0, 1] if (di, dj) != (0, 0)
Offsets ==
    << <<-1, -1>>, <<-1, 0>>, <<-1, 1>>,
       << 0, -1>>,            << 0, 1>>,
       << 1, -1>>, << 1, 0>>, << 1, 1>> >>

\* Mutant of NeighborValue: a bounded grid, cells beyond the edge count as DEAD.
NeighborValueClamped(a, i, j, d, R, C) ==
    IF i + d[1] < 0 \/ i + d[1] >= R \/ j + d[2] < 0 \/ j + d[2] >= C
    THEN 0
    ELSE a.data[i + d[1]][j + d[2]]

\* grid[(i + di) % GRID_ROWS, (j + dj) % GRID_COLS]
NeighborValue(a, i, j, d, R, C) ==
    a.data[PyMod(i + d[1], R)][PyMod(j + d[2], C)]

RECURSIVE SumFrom(_, _, _, _, _, _)
SumFrom(a, i, j, k, R, C) ==
    IF k > Len(Offsets) THEN 0
    ELSE NeighborValue(a, i, j, Offsets[k], R, C) + SumFrom(a, i, j, k + 1, R, C)

\* Mutant of neighbors: only the 4 cells above, below, left and right.
neighbors4(a, i, j, R, C) ==
    NeighborValue(a, i, j, <<-1, 0>>, R, C) + NeighborValue(a, i, j, <<0, -1>>, R, C)
    + NeighborValue(a, i, j, <<0, 1>>, R, C) + NeighborValue(a, i, j, <<1, 0>>, R, C)

\* neighbors = sum(... for di ... for dj ... if (di, dj) != (0, 0))
neighbors(a, i, j, R, C) == SumFrom(a, i, j, 1, R, C)

\* Mutant of grid_copy: new_grid = grid, a second name for the same array.
grid_alias(h, g) == [heap |-> h, ref |-> g]

\* new_grid = grid.copy(): a new array with the contents of grid.
grid_copy(h, g) == [heap |-> Append(h, h[g]), ref |-> Len(h) + 1]

\* Mutant of UpdateCell: birth with 3 or more neighbours.
UpdateCellBirthAbove3(h, g, n, i, j, R, C) ==
    LET nb == neighbors(h[g], i, j, R, C)
        cur == h[g].data[i][j]
    IN  IF cur = 1 /\ (nb < 2 \/ nb > 3)
        THEN [h EXCEPT ![n].data[i][j] = 0]
        ELSE IF cur = 0 /\ nb >= 3
             THEN [h EXCEPT ![n].data[i][j] = 1]
             ELSE h

\* Mutant of UpdateCell: death with 3 neighbours.
UpdateCellDeathAt3(h, g, n, i, j, R, C) ==
    LET nb == neighbors(h[g], i, j, R, C)
        cur == h[g].data[i][j]
    IN  IF cur = 1 /\ (nb < 2 \/ nb >= 3)
        THEN [h EXCEPT ![n].data[i][j] = 0]
        ELSE IF cur = 0 /\ nb = 3
             THEN [h EXCEPT ![n].data[i][j] = 1]
             ELSE h

\* The body of the two loops for cell (i, j): reads grid (object g), writes
\* new_grid (object n).
UpdateCell(h, g, n, i, j, R, C) ==
    LET nb == neighbors(h[g], i, j, R, C)
        cur == h[g].data[i][j]
    IN  IF cur = 1 /\ (nb < 2 \/ nb > 3)
        THEN [h EXCEPT ![n].data[i][j] = 0]
        ELSE IF cur = 0 /\ nb = 3
             THEN [h EXCEPT ![n].data[i][j] = 1]
             ELSE h

\* for j in range(GRID_COLS): the columns lo..hi-1 of row i, in increasing j.
\* The range is split in two halves run one after the other, which keeps the
\* evaluation shallow for 60 columns.
RECURSIVE UpdateCols(_, _, _, _, _, _, _, _)
UpdateCols(h, g, n, i, lo, hi, R, C) ==
    IF lo >= hi THEN h
    ELSE IF hi = lo + 1 THEN UpdateCell(h, g, n, i, lo, R, C)
    ELSE With(UpdateCols(h, g, n, i, lo, (lo + hi) \div 2, R, C),
              LAMBDA h1 : UpdateCols(h1, g, n, i, (lo + hi) \div 2, hi, R, C))

\* for i in range(GRID_ROWS): the rows lo..hi-1, in increasing i, split the
\* same way.
RECURSIVE UpdateRows(_, _, _, _, _, _, _)
UpdateRows(h, g, n, lo, hi, R, C) ==
    IF lo >= hi THEN h
    ELSE IF hi = lo + 1 THEN UpdateCols(h, g, n, lo, 0, C, R, C)
    ELSE With(UpdateRows(h, g, n, lo, (lo + hi) \div 2, R, C),
              LAMBDA h1 : UpdateRows(h1, g, n, (lo + hi) \div 2, hi, R, C))

\* update(frame): the heap after the call and the array grid is rebound to.
update(h, g, R, C) ==
    With(grid_copy(h, g),
         LAMBDA c : [heap |-> UpdateRows(c.heap, g, c.ref, 0, R, R, C), ref |-> c.ref])

-----------------------------------------------------------------------------
(* The application *)

\* Mutant of StopAll: the timers are left running.
StopNone(anis, active) == anis

\* for ani in self.active_animations: ani.event_source.stop()
StopAll(anis, active) ==
    [k \in 1..Len(anis) |->
        IF \E x \in 1..Len(active) : active[x] = k
        THEN [anis[k] EXCEPT !.running = FALSE]
        ELSE anis[k]]

RECURSIVE SumGen(_, _)
SumGen(anis, k) == IF k = 0 THEN 0 ELSE anis[k].gen + SumGen(anis, k - 1)

\* update calls made so far, over all animations
TotalFrames == SumGen(animations, Len(animations))

\* GameOfLifeApp.run_simulation(cells, title).
\* FuncAnimation is given no init_func, so it draws its first frame by calling
\* update once when the first draw event of the canvas arrives; canvas.draw()
\* delivers that event and the timer starts with it.  An exception of np.zeros
\* or of the seeding loop is caught and printed; the animations were stopped
\* and the tab added before it.  An empty array (a dimension of 0) is an image
\* with nothing to draw: imshow and the loops of update accept it.
run_simulation(cells, title) ==
    \E g \in {InitGrid(cells, rows, cols)} :
        /\ tabs' = Append(tabs, title)
        /\ IF g.exc # "none"
           THEN /\ animations' = StopAll(animations, active_animations)
                /\ active_animations' = <<>>
                /\ heap' = heap
                /\ last_error' = g.exc
           ELSE \E u \in {update(Append(heap, g.arr), Len(heap) + 1, rows, cols)} :
                /\ heap' = u.heap
                /\ animations' = Append(StopAll(animations, active_animations),
                        [title |-> title, cells |-> cells, seeded |-> Len(heap) + 1,
                         grid |-> u.ref, running |-> TRUE, gen |-> 1])
                /\ active_animations' = <<Len(animations) + 1>>
                /\ last_error' = last_error
        /\ UNCHANGED <<rows, cols>>

\* One timer event of animation k: FuncAnimation calls update with the next
\* frame (or, when the frames are used up and repeat is set, with the first
\* one again); a stopped timer delivers no event.
Tick(k) ==
    /\ animations[k].running
    /\ \E u \in {update(heap, animations[k].grid, rows, cols)} :
           /\ heap' = u.heap
           /\ animations' = [animations EXCEPT ![k].grid = u.ref,
                                               ![k].gen = @ + 1]
    /\ UNCHANGED <<rows, cols, active_animations, tabs, last_error>>

\* GameOfLifeApp.__init__ and setup_ui
InitApp ==
    /\ heap = <<>>
    /\ animations = <<>>
    /\ active_animations = <<>>
    /\ tabs = <<"Select Pattern">>
    /\ last_error = "none"

-----------------------------------------------------------------------------
(* Spec: the application as built, 60 x 60, driven by the pattern buttons *)

Init ==
    /\ rows = GRID_ROWS
    /\ cols = GRID_COLS
    /\ InitApp

\* A pattern button is pressed: command=lambda c=cells, n=name: ...
Press ==
    /\ Len(tabs) <= MaxRuns
    /\ TotalFrames < MaxFrames
    /\ \E n \in DOMAIN PATTERNS : run_simulation(PATTERNS[n], n)

\* The timer of an animation fires.
Timer ==
    /\ TotalFrames < MaxFrames
    /\ \E k \in 1..Len(animations) : Tick(k)

Next == Press \/ Timer

Spec == Init /\ [][Next]_vars

-----------------------------------------------------------------------------
(* SpecRule: one simulation on every grid of at most MaxCells cells, every  *)
(* set of cells seeded                                                     *)

\* The cells of set S in row-major order, from cell number k on.
RECURSIVE CellList(_, _, _, _)
CellList(S, k, R, C) ==
    IF k >= R * C THEN <<>>
    ELSE IF <<k \div C, k % C>> \in S
         THEN <<(<<k \div C, k % C>>)>> \o CellList(S, k + 1, R, C)
         ELSE CellList(S, k + 1, R, C)

InitRule ==
    /\ rows \in 1..MaxCells
    /\ cols \in 1..MaxCells
    /\ rows * cols <= MaxCells
    /\ InitApp

PressRule ==
    /\ animations = <<>>
    /\ \E S \in SUBSET ((0..(rows - 1)) \X (0..(cols - 1))) :
           run_simulation(CellList(S, 0, rows, cols), "Cells")

TimerRule ==
    \E k \in 1..Len(animations) :
        /\ animations[k].gen < MaxGens
        /\ Tick(k)

NextRule == PressRule \/ TimerRule

SpecRule == InitRule /\ [][NextRule]_vars

-----------------------------------------------------------------------------
(* SpecSeed: lists of cells that leave the grid, on builds whose dimensions *)
(* may be zero or negative                                                 *)

\* Coordinates around and inside an axis of length n.
Coords(n) == (-1)..(IF n < 0 THEN 0 ELSE n)

\* The lists of at most len pairs over the sets of coordinates X and Y.
SeedLists(X, Y, len) ==
    UNION {[1..m -> X \X Y] : m \in 0..len}

InitSeed ==
    /\ rows \in (-1)..MaxSeedDim
    /\ cols \in (-1)..MaxSeedDim
    /\ InitApp

PressSeed ==
    /\ Len(tabs) = 1
    /\ \E cells \in SeedLists(Coords(rows), Coords(cols), MaxSeedLen) :
           run_simulation(cells, "Cells")

TimerSeed ==
    \E k \in 1..Len(animations) :
        /\ animations[k].gen < 2
        /\ Tick(k)

NextSeed == PressSeed \/ TimerSeed

SpecSeed == InitSeed /\ [][NextSeed]_vars

-----------------------------------------------------------------------------
(* SpecShapes: blinkers and blocks at every position of small builds, and   *)
(* the patterns of the source on the 60 x 60 build                          *)

\* The horizontal blinker centred at (r, c), as written.
HBlinker(r, c) == << <<r, c - 1>>, <<r, c>>, <<r, c + 1>> >>

\* The same with the column indices wrapped onto a grid of C columns.
HBlinkerWrapped(r, c, C) == << <<r, (c - 1) % C>>, <<r, c>>, <<r, (c + 1) % C>> >>

\* The 2 x 2 block with top-left corner (r, c), wrapped onto an R x C grid.
Block(r, c, R, C) ==
    << <<r, c>>, <<r, (c + 1) % C>>,
       <<(r + 1) % R, c>>, <<(r + 1) % R, (c + 1) % C>> >>

InitShapes ==
    /\ \/ rows \in 1..MaxShapeDim /\ cols \in 1..MaxShapeDim
       \/ rows = GRID_ROWS /\ cols = GRID_COLS
    /\ InitApp

PressShape ==
    /\ animations = <<>>
    /\ rows <= MaxShapeDim
    /\ \E r \in 0..(rows - 1), c \in 0..(cols - 1) :
           \/ run_simulation(HBlinker(r, c), "Blinker")
           \/ run_simulation(HBlinkerWrapped(r, c, cols), "Blinker")
           \/ run_simulation(Block(r, c, rows, cols), "Block")

PressPattern ==
    /\ animations = <<>>
    /\ rows > MaxShapeDim
    /\ \E n \in DOMAIN PATTERNS : run_simulation(PATTERNS[n], n)

TimerShapes ==
    \E k \in 1..Len(animations) :
        /\ animations[k].gen < MaxShapeGens
        /\ Tick(k)

NextShapes == PressShape \/ PressPattern \/ TimerShapes

SpecShapes == InitShapes /\ [][NextShapes]_vars

-----------------------------------------------------------------------------
(* Vocabulary of the properties *)

\* The cells of array a and those that are ALIVE.
Cells(a) == (0..(a.shape[1] - 1)) \X (0..(a.shape[2] - 1))
Live(a) == {p \in Cells(a) : a.data[p[1]][p[2]] = 1}

\* The pairs of a list of cells.
Range(cells) == {cells[x] : x \in DOMAIN cells}

\* The 8 non-zero offsets, as a set.
OffsetSet == ({-1, 0, 1} \X {-1, 0, 1}) \ {<<0, 0>>}

\* Live neighbours of (i, j) in a, counted offset by offset on the torus.
LiveNeighbours(a, i, j) ==
    Cardinality({d \in OffsetSet :
        a.data[(i + d[1]) % a.shape[1]][(j + d[2]) % a.shape[2]] = 1})

\* Conway's rule applied to every cell of a at once.
Conway(a) ==
    [shape |-> a.shape,
     data |-> [i \in 0..(a.shape[1] - 1) |-> [j \in 0..(a.shape[2] - 1) |->
        IF \/ a.data[i][j] = 1 /\ LiveNeighbours(a, i, j) \in {2, 3}
           \/ a.data[i][j] = 0 /\ LiveNeighbours(a, i, j) = 3
        THEN 1 ELSE 0]]]

\* The arrays animation k has held: the seeded one and one per update call.
\* Arrays are allocated in order and only the newest animation runs.
Generation(k, m) == heap[animations[k].seeded + m]

-----------------------------------------------------------------------------
(* C1 *)

\* C1: every update call applies Conway's rule synchronously.  Each array an
\* animation obtained from an update call equals the rule applied to the
\* array it held before the call: a cell is ALIVE iff it was ALIVE with 2 or
\* 3 live neighbours or DEAD with exactly 3, the neighbours all counted in the
\* array of the generation before.
C1_ConwayRule ==
    \A k \in DOMAIN animations :
        /\ animations[k].grid = animations[k].seeded + animations[k].gen
        /\ \A m \in 1..animations[k].gen :
               Generation(k, m) = Conway(Generation(k, m - 1))

\* A step, on a grid of two or more rows and columns, in which one cell is
\* born, one survives and one dies.
C1_Witness ==
    /\ rows >= 2
    /\ cols >= 2
    /\ \E k \in DOMAIN animations :
           LET old == Generation(k, 0)
               new == Generation(k, 1)
           IN  /\ \E p \in Cells(old) : old.data[p[1]][p[2]] = 0 /\ new.data[p[1]][p[2]] = 1
               /\ \E p \in Cells(old) : old.data[p[1]][p[2]] = 1 /\ new.data[p[1]][p[2]] = 1
               /\ \E p \in Cells(old) : old.data[p[1]][p[2]] = 1 /\ new.data[p[1]][p[2]] = 0

-----------------------------------------------------------------------------
(* C2 *)

\* C2: a generation step never mutates the grid it reads.  In every step of
\* the program each array that exists before the step holds the same values
\* after it, and an animation whose grid changes is rebound to an array that
\* did not exist before, of the same shape as the one it held.
C2_StepKeepsItsInput ==
    [][/\ \A o \in DOMAIN heap : o \in DOMAIN heap' /\ heap'[o] = heap[o]
       /\ \A k \in DOMAIN animations :
              \/ /\ animations'[k].grid = animations[k].grid
                 /\ animations'[k].gen = animations[k].gen
              \/ /\ animations'[k].grid \notin DOMAIN heap
                 /\ heap'[animations'[k].grid].shape = heap[animations[k].grid].shape
                 /\ heap'[animations'[k].grid] = Conway(heap[animations[k].grid])
      ]_vars

\* Two update calls have changed the grid, and the arrays read by them are
\* still there, each different from its successor.
C2_Witness ==
    \E k \in DOMAIN animations :
        /\ animations[k].gen >= 2
        /\ Generation(k, 0) # Generation(k, 1)
        /\ Generation(k, 1) # Generation(k, 2)

-----------------------------------------------------------------------------
(* C3 *)

\* The array a with cell (i, j) changed from DEAD to ALIVE or back.
FlipCell(a, i, j) == [a EXCEPT !.data[i][j] = 1 - @]

\* The count of cell (i, j) does not depend on the state of the cell itself.
SelfExcluded(a, i, j) ==
    neighbors(FlipCell(a, i, j), i, j, rows, cols) = neighbors(a, i, j, rows, cols)

\* C3, as claimed: on every grid of positive dimensions, 1 x 1 and 1 x N
\* included, the neighbour count of a cell never includes the cell itself and
\* lies in 0..8.
C3_Original ==
    \A o \in DOMAIN heap : \A p \in Cells(heap[o]) :
        /\ neighbors(heap[o], p[1], p[2], rows, cols) \in 0..8
        /\ SelfExcluded(heap[o], p[1], p[2])

\* C3, amended: the count lies in 0..8 on every grid of positive dimensions,
\* and it never includes the cell itself on a grid of at least 2 rows and 2
\* columns.
C3_CountExcludesSelf ==
    \A o \in DOMAIN heap : \A p \in Cells(heap[o]) :
        /\ neighbors(heap[o], p[1], p[2], rows, cols) \in 0..8
        /\ (rows >= 2 /\ cols >= 2) => SelfExcluded(heap[o], p[1], p[2])

\* A live cell all of whose 8 neighbours are alive.
C3_Witness ==
    /\ rows >= 2
    /\ cols >= 2
    /\ \E o \in DOMAIN heap : \E p \in Cells(heap[o]) :
           /\ heap[o].data[p[1]][p[2]] = 1
           /\ neighbors(heap[o], p[1], p[2], rows, cols) = 8

-----------------------------------------------------------------------------
(* C4 *)

\* x is a multiple of n, for x in -n..n.
Wraps(n, x) == \E q \in {-1, 0, 1} : x = q * n

\* The neighbours the claim lists for a live cell at (0, 0), on R x C.
OriginNeighbours(R, C) ==
    << <<R - 1, C - 1>>, <<R - 1, 0>>, <<R - 1, 1 % C>>,
       <<0, C - 1>>,                   <<0, 1 % C>>,
       <<1 % R, C - 1>>, <<1 % R, 0>>, <<1 % R, 1 % C>> >>

\* C4: the grid is toroidal.  When q is the only live cell of a grid, the
\* count of a cell p is the number of the 8 offsets that lead from p to q with
\* the row taken modulo the rows and the column modulo the columns; for q =
\* (0, 0) these are the cells (R-1, C-1), (R-1, 0), (R-1, 1), (0, C-1), (0, 1),
\* (1, C-1), (1, 0), (1, 1), each once per place it takes in the list.
C4_Toroidal ==
    \A o \in DOMAIN heap : \A q \in Cells(heap[o]) :
        Live(heap[o]) = {q} =>
            \A p \in Cells(heap[o]) :
                /\ neighbors(heap[o], p[1], p[2], rows, cols) =
                       Cardinality({d \in OffsetSet :
                           /\ Wraps(rows, p[1] + d[1] - q[1])
                           /\ Wraps(cols, p[2] + d[2] - q[2])})
                /\ q = <<0, 0>> =>
                       neighbors(heap[o], p[1], p[2], rows, cols) =
                           Cardinality({x \in 1..8 : OriginNeighbours(rows, cols)[x] = p})

\* A grid of 3 x 3 or more whose only live cell is (0, 0).
C4_Witness ==
    /\ rows >= 3
    /\ cols >= 3
    /\ \E o \in DOMAIN heap : Live(heap[o]) = {<<0, 0>>}

-----------------------------------------------------------------------------
(* C5 *)

\* 0 <= row < rows and 0 <= col < cols
InRange(p) == 0 <= p[1] /\ p[1] < rows /\ 0 <= p[2] /\ p[2] < cols

\* C5: seeding starts from an all-DEAD grid and sets ALIVE exactly the cells
\* whose pair is in range.  On a grid of positive dimensions every call of
\* run_simulation ends without an error, and the live cells of the seeded
\* array are the pairs of the list that lie in 0..rows-1 x 0..cols-1.
C5_SeedsInRangeOnly ==
    (rows >= 1 /\ cols >= 1) =>
        /\ last_error = "none"
        /\ Len(animations) = Len(tabs) - 1
        /\ \A k \in DOMAIN animations :
               /\ Generation(k, 0).shape = <<rows, cols>>
               /\ Live(Generation(k, 0)) = {p \in Range(animations[k].cells) : InRange(p)}

\* A list with a pair left of or above the grid and a pair inside it.
C5_Witness ==
    \E k \in DOMAIN animations :
        /\ \E p \in Range(animations[k].cells) : p[1] = -1 \/ p[2] = -1
        /\ \E p \in Range(animations[k].cells) : InRange(p)
        /\ Live(Generation(k, 0)) # {}

-----------------------------------------------------------------------------
(* C6 *)

\* Every cell of a that the list of cells does not name is DEAD.
DeadOutside(a, cells) == Live(a) \subseteq Range(cells)

-----------------------------------------------------------------------------
(* C7 *)

\* C7: at most one simulation advances.  active_animations holds at most one
\* entry, only the animation created last has a running timer, and an
\* animation that is not the last one stopped before the next one's grid was
\* made and has not advanced since: the array it holds is the last one
\* allocated before the seeded array of its successor.
C7_OneSimulationAdvances ==
    /\ Len(active_animations) <= 1
    /\ \A k \in DOMAIN animations :
           /\ animations[k].running => k = Len(animations) /\ active_animations = <<k>>
           /\ k < Len(animations) =>
                  /\ ~animations[k].running
                  /\ animations[k].grid = animations[k + 1].seeded - 1

\* A first simulation that advanced on its timer and was stopped, and a second
\* one that has advanced on its timer since.
C7_Witness ==
    /\ Len(animations) = 2
    /\ animations[1].gen >= 2
    /\ ~animations[1].running
    /\ animations[2].gen >= 2
    /\ animations[2].running

-----------------------------------------------------------------------------
(* C8 *)

\* The vertical blinker centred at (r, c) on a grid of R rows.
VBlinkerCells(r, c, R) == {<<(r - 1) % R, c>>, <<r, c>>, <<(r + 1) % R, c>>}

\* Animation k, seeded with cells, is the period-2 oscillator of (r, c): the
\* vertical blinker after an odd number of steps, the seeded grid after an
\* even number.
Oscillates(k, r, c) ==
    IF animations[k].gen % 2 = 1
    THEN Live(heap[animations[k].grid]) = VBlinkerCells(r, c, rows)
    ELSE heap[animations[k].grid] = Generation(k, 0)

\* C8, as claimed: for every position (r, c) of a grid of at least 5 x 5,
\* seeding (r, c-1), (r, c), (r, c+1) gives the period-2 oscillator.
C8_Original ==
    \A k \in DOMAIN animations : \A r \in 0..(rows - 1), c \in 0..(cols - 1) :
        (rows >= 5 /\ cols >= 5 /\ animations[k].cells = HBlinker(r, c)) =>
            Oscillates(k, r, c)

\* C8, amended: for every position (r, c) of a grid of at least 5 x 5,
\* seeding (r, (c-1) mod cols), (r, c), (r, (c+1) mod cols), the three cells
\* with their columns wrapped onto the grid, gives the period-2 oscillator:
\* three live cells are seeded, one step yields the vertical blinker
\* ((r-1) mod rows, c), (r, c), ((r+1) mod rows, c) and two steps yield the
\* seeded grid.  The Blinker of PATTERNS is the case (30, 30) on 60 x 60.
C8_BlinkerOscillates ==
    \A k \in DOMAIN animations : \A r \in 0..(rows - 1), c \in 0..(cols - 1) :
        (rows >= 5 /\ cols >= 5 /\ animations[k].cells = HBlinkerWrapped(r, c, cols)) =>
            /\ Live(Generation(k, 0)) = Range(HBlinkerWrapped(r, c, cols))
            /\ Cardinality(Live(Generation(k, 0))) = 3
            /\ Oscillates(k, r, c)

\* A blinker in the corner of the grid, reaching over both edges, back in its
\* seeded form after two steps.
C8_Witness ==
    /\ rows >= 5
    /\ cols >= 5
    /\ \E k \in DOMAIN animations :
           /\ animations[k].cells = HBlinkerWrapped(0, 0, cols)
           /\ animations[k].gen = 2
           /\ Live(Generation(k, 1)) = VBlinkerCells(0, 0, rows)
           /\ Live(heap[animations[k].grid]) = {<<0, cols - 1>>, <<0, 0>>, <<0, 1>>}

-----------------------------------------------------------------------------
(* C9 *)

\* C9, as claimed: on every grid on which the four cells of a 2 x 2 block are
\* four different cells, a block with all other cells DEAD is unchanged by a
\* generation step.
C9_Original ==
    \A k \in DOMAIN animations : \A r \in 0..(rows - 1), c \in 0..(cols - 1) :
        (rows >= 2 /\ cols >= 2 /\ animations[k].cells = Block(r, c, rows, cols)) =>
            /\ Cardinality(Live(Generation(k, 0))) = 4
            /\ heap[animations[k].grid] = Generation(k, 0)

\* C9, amended: on every grid of at least 3 rows and 3 columns, and for every
\* position of the block (its cells wrapped onto the grid), a 2 x 2 block with
\* all other cells DEAD is unchanged by a generation step.
C9_BlockIsStill ==
    \A k \in DOMAIN animations : \A r \in 0..(rows - 1), c \in 0..(cols - 1) :
        (rows >= 3 /\ cols >= 3 /\ animations[k].cells = Block(r, c, rows, cols)) =>
            /\ Live(Generation(k, 0)) = Range(Block(r, c, rows, cols))
            /\ Cardinality(Live(Generation(k, 0))) = 4
            /\ \A m \in 1..animations[k].gen : Generation(k, m) = Generation(k, 0)

\* A block over the corner of a 3 x 3 grid, after a step.
C9_Witness ==
    /\ rows = 3
    /\ cols = 3
    /\ \E k \in DOMAIN animations :
           /\ animations[k].cells = Block(2, 2, 3, 3)
           /\ animations[k].gen >= 1
           /\ Live(heap[animations[k].grid]) = {<<2, 2>>, <<2, 0>>, <<0, 2>>, <<0, 0>>}

-----------------------------------------------------------------------------
(* C10 *)

\* The cells of S moved by (dr, dc) on the torus.
Translate(S, dr, dc) == {<<(p[1] + dr) % rows, (p[2] + dc) % cols>> : p \in S}

\* C10: the "Lightweight Spaceship (LWSS)" of PATTERNS is the standard
\* spaceship.  After every 4 generation steps its live cells are the 9 seeded
\* cells moved by 2 cells per 4 steps along one axis of the grid.
C10_LWSSTravels ==
    \A k \in DOMAIN animations :
        (/\ animations[k].title = "Lightweight Spaceship (LWSS)"
         /\ animations[k].gen % 4 = 0) =>
            \E d \in {<<0, 1>>, <<0, -1>>, <<1, 0>>, <<-1, 0>>} :
                Live(heap[animations[k].grid]) =
                    Translate(Range(animations[k].cells),
                              d[1] * 2 * (animations[k].gen \div 4),
                              d[2] * 2 * (animations[k].gen \div 4))

====
